---- MODULE Spec2Model ----
(***************************************************************************)
(* Venkateshpura chatbot backend (src/main.py): the /chat, /report and     *)
(* /api/identify handlers, the two append-only JSONL logs and the          *)
(* background report logger.                                               *)
(*                                                                         *)
(* Texts are sequences of tokens: a token is one whitespace character or   *)
(* one whitespace-free word, so that str.strip() is computed, not assumed. *)
(* A log file is the sequence of its lines.  A handler is cut into steps   *)
(* only where it blocks on the outside world (the external API call, the   *)
(* write to a log file opened by open()).                                  *)
(***************************************************************************)
EXTENDS Integers, Sequences, FiniteSets, TLC

VARIABLES MOCK_MODE, PLANTNET_API_KEY, openaiError, chatLog, reportLog,
          req, tasks, nreq, clock

vars == <<MOCK_MODE, PLANTNET_API_KEY, openaiError, chatLog, reportLog,
          req, tasks, nreq, clock>>

(* Number of requests the service receives in one run. *)
MaxRequests == 2

(* Worker processes.  One process runs its `async def` handlers on a single *)
(* event loop: chat() and identify_plant() never await, so they run to     *)
(* completion before the loop takes the next request.  Several workers of   *)
(* a multi-process deployment share the log files.                         *)
EventLoop == {1}
WorkerProcs == {1, 2}

(* ------------------------------ texts --------------------------------- *)

Whitespace == {" ", "\t", "\n"}

RECURSIVE LStrip(_)
LStrip(s) ==
    IF s = <<>> THEN s
    ELSE IF Head(s) \in Whitespace THEN LStrip(Tail(s)) ELSE s

RECURSIVE RStrip(_)
RStrip(s) ==
    IF s = <<>> THEN s
    ELSE IF s[Len(s)] \in Whitespace THEN RStrip(SubSeq(s, 1, Len(s) - 1)) ELSE s

(* A strip() that removes blanks only, leaving tabs and newlines. *)
StripBlanksOnly(s) ==
    LET RECURSIVE L(_)
        L(t) == IF t = <<>> THEN t ELSE IF Head(t) = " " THEN L(Tail(t)) ELSE t
        RECURSIVE R(_)
        R(t) == IF t = <<>> THEN t
                ELSE IF t[Len(t)] = " " THEN R(SubSeq(t, 1, Len(t) - 1)) ELSE t
    IN  R(L(s))

(* str.strip(): leading and trailing whitespace removed. *)
Strip(s) ==
    RStrip(LStrip(s))

(* ------------------------------ inputs -------------------------------- *)

(* Bodies of POST /chat: ChatRequest.message. *)
Messages ==
    { <<>>, <<" ">>, <<"\t", "\n">>, <<" ", "lake", "\n">>, <<"fish", " ", "count">> }

Raises == [kind |-> "raises", text |-> <<>>]
NotAStr == [kind |-> "none", text |-> <<>>]
Str(t) == [kind |-> "str", text |-> t]

(* What choices[0].message["content"] can do: raise, give a non-string     *)
(* (None), or give a string.                                               *)
MappingContents ==
    { Raises, NotAStr, Str(<<" ">>), Str(<<" ", "Lakes", " ", "breathe.", "\n">>) }

(* What choices[0].message.content can do. *)
AttributeContents ==
    { Raises, NotAStr, Str(<<"\t">>), Str(<<"Herons", " ", "fish.", " ">>) }

(* Objects a successful client.chat.completions.create() can return. *)
ChatResponses ==
    [map : MappingContents, attr : AttributeContents, repr : {<<"ChatCompletion(id=1)">>}]

(* Failures the external chat call can raise: whether the exception has a  *)
(* `code` attribute and its value, whether its runtime type is the client  *)
(* library's rate-limit error type, and str(e).                            *)
ChatErrors ==
    { [hasCode |-> TRUE,  code |-> "rate_limit_exceeded", rateLimitType |-> TRUE,
       text |-> <<"Error", " ", "429">>],
      [hasCode |-> TRUE,  code |-> "insufficient_quota",  rateLimitType |-> TRUE,
       text |-> <<"Error", " ", "429">>],
      [hasCode |-> TRUE,  code |-> "None",                rateLimitType |-> TRUE,
       text |-> <<"Error", " ", "429">>],
      [hasCode |-> TRUE,  code |-> "insufficient_quota",  rateLimitType |-> FALSE,
       text |-> <<"Error", " ", "403">>],
      [hasCode |-> TRUE,  code |-> "invalid_api_key",     rateLimitType |-> FALSE,
       text |-> <<"Error", " ", "401">>],
      [hasCode |-> TRUE,  code |-> "None",                rateLimitType |-> FALSE,
       text |-> <<"Connection", " ", "error.">>],
      [hasCode |-> FALSE, code |-> "None",                rateLimitType |-> FALSE,
       text |-> <<"timed", " ", "out">>] }

ChatOutcomes ==
    { [kind |-> "response", resp |-> r] : r \in ChatResponses }
    \cup { [kind |-> "error", err |-> e] : e \in ChatErrors }

NoCall == [kind |-> "nocall"]

(* The three shapes of the attribute `openai_pkg.error` that line 234       *)
(* provides for: no such attribute (the 1.x client that line 14 imports     *)
(* `OpenAI` from), a namespace holding RateLimitError, and a namespace      *)
(* without it (getattr's default, Exception, is then used).                 *)
ErrorNamespaces == {"absent", "with_RateLimitError", "without_RateLimitError"}

(* ------------------------------ /chat --------------------------------- *)

MockReply == <<"This is a temporary mock reply (MOCK_MODE).">>
QuotaFriendly == <<"Service temporarily unavailable due to quota/limits. Try again later.">>
RateLimitFriendly == <<"OpenAI rate-limit reached. Try again shortly.">>
ServerErrorPrefix == <<"Server error during OpenAI call:", " ">>

HTTPException(status_code, detail) ==
    [status |-> status_code, body |-> [detail |-> detail]]

Ok200(body) ==
    [status |-> 200, body |-> body]

NoResponse == [status |-> 0, body |-> [detail |-> <<>>]]

(* An exception that no handler code catches: the framework answers 500. *)
Unhandled == HTTPException(500, <<"Internal Server Error">>)

(* x.strip() on the value an access produced: raises unless x is a string. *)
StripOf(c) ==
    IF c.kind = "str" THEN Str(Strip(c.text)) ELSE Raises

(* The fallback chain tried in the other order: attribute access first. *)
ExtractReplyAttrFirst(resp) ==
    IF StripOf(resp.attr).kind = "str" THEN StripOf(resp.attr).text
    ELSE IF StripOf(resp.map).kind = "str" THEN StripOf(resp.map).text
    ELSE resp.repr

(* Lines 205-215: nested try/except, first success wins. *)
ExtractReply(resp) ==
    IF StripOf(resp.map).kind = "str" THEN StripOf(resp.map).text
    ELSE IF StripOf(resp.attr).kind = "str" THEN StripOf(resp.attr).text
    ELSE resp.repr

(* isinstance(e, getattr(openai_pkg.error, "RateLimitError", Exception))   *)
(* inside try/except Exception: pass.                                      *)
IsRateLimitInstance(e, ns) ==
    CASE ns = "absent" -> FALSE
      [] ns = "with_RateLimitError" -> e.rateLimitType
      [] ns = "without_RateLimitError" -> TRUE

(* Lines 226-242: the three rules, in order. *)
Classify(e, ns) ==
    IF e.hasCode /\ e.code \in {"insufficient_quota", "rate_limit_exceeded"}
    THEN [kind |-> "quota_or_rate_limit", friendly |-> QuotaFriendly]
    ELSE IF IsRateLimitInstance(e, ns)
    THEN [kind |-> "quota_or_rate_limit", friendly |-> RateLimitFriendly]
    ELSE [kind |-> "server_error", detail |-> ServerErrorPrefix \o e.text]

(* --------------------------- request records -------------------------- *)

NoHandle == [ts |-> 0, pos |-> 0]

(* A worker with no request: nothing received, nothing answered. *)
IdleReq ==
    [kind |-> "none", pc |-> "idle", message |-> <<>>, api |-> NoCall,
     apiCalls |-> 0, logCalls |-> <<>>, handle |-> NoHandle, appended |-> 0,
     logFailed |-> FALSE, response |-> NoResponse]

(* ------------------------------ logging ------------------------------- *)

(* A write through a handle that keeps the offset it had at open(), as a   *)
(* file opened without append mode does: it lands on whatever was added    *)
(* since.                                                                  *)
WriteLineAtOpenOffset(file, pos, line) ==
    SubSeq(file, 1, pos) \o <<line>> \o SubSeq(file, pos + 2, Len(file))

(* f.write(json.dumps(entry) + "\n") on a file opened with mode "a": the   *)
(* line is one string, flushed by one write at the end of the file as it   *)
(* is at that moment, whatever the offset at open() was.                   *)
WriteLine(file, pos, line) ==
    Append(file, line)

(* An `except` clause that prints and raises again. *)
LogFailureReraised(failed) ==
    failed

(* Lines 172-174 and 90-91: `except Exception` prints and returns; the     *)
(* failure of a log write never leaves log_chat / log_report.              *)
LogFailurePropagates(failed) ==
    FALSE

(* The end of log_chat and the `return {"reply": ...}` after it. *)
AfterLog(r, failed) ==
    [r EXCEPT !.pc = "done", !.logFailed = failed,
              !.response = IF LogFailurePropagates(failed) THEN Unhandled ELSE @]

(* log_chat(user_message, reply_text) up to open(LOGFILE, "a"), followed   *)
(* by the reply the handler returns once log_chat is over: the entry takes *)
(* its timestamp, then the file is opened (openOk) or open() raises.       *)
LogAndReply(r, user_message, reply_text, openOk, now, pos) ==
    LET r1 == [r EXCEPT !.logCalls = Append(@, [message |-> user_message, reply |-> reply_text]),
                        !.response = Ok200([reply |-> reply_text])]
    IN  IF openOk
        THEN [r1 EXCEPT !.pc = "logging", !.handle = [ts |-> now, pos |-> pos]]
        ELSE AfterLog(r1, TRUE)

(* chat() with the external call made before the mock test: the mock      *)
(* reply is still what comes back.                                         *)
ChatBeginCallFirst(m, mock, openOk, now, pos) ==
    LET r0 == [IdleReq EXCEPT !.kind = "chat", !.message = m]
    IN  IF Strip(m) = <<>>
        THEN [r0 EXCEPT !.pc = "done", !.response = HTTPException(400, <<"Empty message">>)]
        ELSE IF mock
        THEN LogAndReply([r0 EXCEPT !.apiCalls = 1], Strip(m), MockReply, openOk, now, pos)
        ELSE [r0 EXCEPT !.pc = "calling", !.apiCalls = 1]

(* chat() without the mock short cut. *)
ChatBeginNoMock(m, mock, openOk, now, pos) ==
    LET r0 == [IdleReq EXCEPT !.kind = "chat", !.message = m]
    IN  IF Strip(m) = <<>>
        THEN [r0 EXCEPT !.pc = "done", !.response = HTTPException(400, <<"Empty message">>)]
        ELSE [r0 EXCEPT !.pc = "calling", !.apiCalls = 1]

(* Lines 182-203: chat() up to the external call. *)
ChatBegin(m, mock, openOk, now, pos) ==
    LET user_message == Strip(m)
        r0 == [IdleReq EXCEPT !.kind = "chat", !.message = m]
    IN  IF user_message = <<>>
        THEN [r0 EXCEPT !.pc = "done", !.response = HTTPException(400, <<"Empty message">>)]
        ELSE IF mock
        THEN LogAndReply(r0, user_message, MockReply, openOk, now, pos)
        ELSE [r0 EXCEPT !.pc = "calling", !.apiCalls = 1]

(* The failure branch answering a classified failure without logging it. *)
ChatFinishUnlogged(r, o, ns, openOk, now, pos) ==
    LET r1 == [r EXCEPT !.api = o]
    IN  IF o.kind = "response"
        THEN LogAndReply(r1, Strip(r.message), ExtractReply(o.resp), openOk, now, pos)
        ELSE LET c == Classify(o.err, ns)
             IN  IF c.kind = "quota_or_rate_limit"
                 THEN [r1 EXCEPT !.pc = "done", !.response = Ok200([reply |-> c.friendly])]
                 ELSE [r1 EXCEPT !.pc = "done", !.response = HTTPException(500, c.detail)]

(* Lines 204-242: chat() from the return of the external call (a response  *)
(* or a raised failure) to the reply or the HTTPException.                 *)
ChatFinish(r, o, ns, openOk, now, pos) ==
    LET r1 == [r EXCEPT !.api = o]
    IN  IF o.kind = "response"
        THEN LogAndReply(r1, Strip(r.message), ExtractReply(o.resp), openOk, now, pos)
        ELSE LET c == Classify(o.err, ns)
             IN  IF c.kind = "quota_or_rate_limit"
                 THEN LogAndReply(r1, Strip(r.message), c.friendly, openOk, now, pos)
                 ELSE [r1 EXCEPT !.pc = "done", !.response = HTTPException(500, c.detail)]

(* The line log_chat writes: {"ts", "message", "reply"}. *)
ChatLine(r) ==
    [ts |-> r.handle.ts,
     message |-> r.logCalls[Len(r.logCalls)].message,
     reply |-> r.logCalls[Len(r.logCalls)].reply]

(* ------------------------------ /report ------------------------------- *)

(* Bodies of POST /report: every field of Report is optional. *)
Reports ==
    { [name |-> "None", email |-> "None", category |-> "None", details |-> "None", ts |-> "None"],
      [name |-> "Asha", email |-> "None", category |-> "litter",
       details |-> "Plastic near the inlet", ts |-> "2024-05-01T10:00"] }

(* Lines 95-96: entry = r.dict(); entry["received_at"] = time.time(). *)
ReportEntry(r, now) ==
    [name |-> r.name, email |-> r.email, category |-> r.category,
     details |-> r.details, ts |-> r.ts, received_at |-> now]

ReportReceived == Ok200([status |-> "ok", message |-> "Report received"])

(* ---------------------------- /api/identify --------------------------- *)

GenericPlantText == "This type of aquatic vegetation is a **primary producer**, playing a key role in oxygenating the water and providing crucial food and shelter for insects and young fish."

SpeciesKeys == {"Nymphaea alba", "Typha latifolia", "Potamogeton crispus"}

species_contributions(k) ==
    CASE k = "Nymphaea alba" -> "The White Water Lily is a vital **producer** that provides shade, cover for fish spawning, and stabilizes bottom sediment, which helps reduce lake cloudiness (turbidity)."
      [] k = "Typha latifolia" -> "Broadleaf Cattail is important for **shoreline stability** and provides nesting habitat, but its dense growth can lead to marsh encroachment."
      [] k = "Potamogeton crispus" -> "Curled Pondweed provides good cover for juvenile fish and invertebrates, but can become invasive in nutrient-rich water."

(* A lookup that has lost its table. *)
get_species_contribution_generic(scientific_name) ==
    GenericPlantText

(* Lines 33-46: dict.get with the generic text as default. *)
get_species_contribution(scientific_name) ==
    IF scientific_name \in SpeciesKeys
    THEN species_contributions(scientific_name)
    ELSE GenericPlantText

(* One element of `results`.  has* tell whether the keys the handler reads *)
(* are there; score is in units of 0.00001.                                *)
Match(name, common, score) ==
    [hasName |-> TRUE, scientificName |-> name, hasCommon |-> TRUE, commonNames |-> common,
     hasScore |-> TRUE, score |-> score]

Lily == Match("Nymphaea alba", <<"White Water Lily", "European white waterlily">>, 87340)
LowerCaseLily == Match("nymphaea alba", <<>>, 12346)
Cattail == Match("Typha latifolia", <<"Broadleaf Cattail">>, 40000)
NoScore == [Lily EXCEPT !.hasScore = FALSE]
NoCommon == [Cattail EXCEPT !.hasCommon = FALSE]

Json(results) == [isJson |-> TRUE, hasResults |-> TRUE, results |-> results]
NotJson == [isJson |-> FALSE, hasResults |-> FALSE, results |-> <<>>]
NoResultsKey == [isJson |-> TRUE, hasResults |-> FALSE, results |-> <<>>]

(* Bodies of the identification service's answers: the text and what       *)
(* response.json() makes of it.                                            *)
UpstreamBodies ==
    { [text |-> <<"<html>busy</html>">>, json |-> NotJson],
      [text |-> <<"{\"error\":", " ", "\"quota\"}">>, json |-> NoResultsKey],
      [text |-> <<"{\"results\":[]}">>, json |-> Json(<<>>)],
      [text |-> <<"{\"results\":[lily,cattail]}">>, json |-> Json(<<Lily, Cattail>>)],
      [text |-> <<"{\"results\":[nymphaea,lily]}">>, json |-> Json(<<LowerCaseLily, Lily>>)],
      [text |-> <<"{\"results\":[lily-without-score]}">>, json |-> Json(<<NoScore>>)],
      [text |-> <<"{\"results\":[cattail-without-names]}">>, json |-> Json(<<NoCommon>>)] }

UpstreamStatuses == {200, 201, 304, 404, 429, 503}

(* What requests.post() can do: raise (no connection), or return a         *)
(* response with a status code and a body.                                 *)
PlantnetOutcomes ==
    { [kind |-> "network_error"] }
    \cup { [kind |-> "response", status_code |-> c, text |-> b.text, json |-> b.json] :
             c \in UpstreamStatuses, b \in UpstreamBodies }

NotConfigured == HTTPException(500, <<"Pl@ntNet API Key not configured on server.">>)
InternalError == HTTPException(500, <<"Internal server error during identification.">>)
PlantnetErrorPrefix == <<"Pl@ntNet API Error:", " ">>
LowConfidence == Ok200([message |-> "Could not identify species with high confidence. Please try another photo."])

(* A raise_for_status() that raises for 4xx only. *)
RaiseForStatusClientOnly(status_code) ==
    400 <= status_code /\ status_code < 500

(* Line 127: response.raise_for_status() raises HTTPError for 4xx and 5xx. *)
RaiseForStatus(status_code) ==
    400 <= status_code /\ status_code < 600

(* round(score * 100, 2), score in units of 0.00001 and the result in      *)
(* units of 0.01: to the nearest (no score of the inputs above is a tie).  *)
Confidence(score) ==
    LET q == score \div 10
        rem == score % 10
    IN  IF rem > 5 \/ (rem = 5 /\ q % 2 = 1) THEN q + 1 ELSE q

(* Lines 132-150 on a parsed body whose first match lacks no key. *)
Identification(top_match) ==
    Ok200([scientificName |-> top_match.scientificName,
           commonName |-> IF top_match.commonNames # <<>>
                          THEN top_match.commonNames[1]
                          ELSE top_match.scientificName,
           confidence |-> Confidence(top_match.score),
           contribution |-> get_species_contribution(top_match.scientificName)])

(* Lines 125-160: identify_plant() from the return of requests.post(). *)
IdentifyFinish(o) ==
    IF o.kind = "network_error" THEN InternalError
    ELSE IF RaiseForStatus(o.status_code)
    THEN HTTPException(o.status_code, PlantnetErrorPrefix \o o.text)
    ELSE IF ~o.json.isJson \/ ~o.json.hasResults THEN InternalError
    ELSE IF o.json.results = <<>> THEN LowConfidence
    ELSE LET top_match == o.json.results[1]
         IN  IF top_match.hasName /\ top_match.hasCommon /\ top_match.hasScore
             THEN Identification(top_match)
             ELSE InternalError

(* ------------------------------ actions ------------------------------- *)

config == <<MOCK_MODE, PLANTNET_API_KEY, openaiError>>

(* Configuration is read once at start-up (lines 19-22, 52); the log files *)
(* are empty; no request has arrived.                                      *)
Init ==
    /\ MOCK_MODE \in BOOLEAN
    /\ PLANTNET_API_KEY \in BOOLEAN
    /\ openaiError \in ErrorNamespaces
    /\ chatLog = <<>>
    /\ reportLog = <<>>
    /\ req = [w \in WorkerProcs |-> IdleReq]
    /\ tasks = <<>>
    /\ nreq = 0
    /\ clock = 1

Free(w) == req[w].pc \in {"idle", "done"}

(* POST /chat arrives at worker w with message m: validation, the mock     *)
(* branch (its open() succeeding or not) or the start of the external call.*)
ChatStart(w, m, openOk) ==
    /\ nreq < MaxRequests
    /\ Free(w)
    /\ LET r == ChatBegin(m, MOCK_MODE, openOk, clock, Len(chatLog))
       IN  /\ req' = [req EXCEPT ![w] = r]
           /\ clock' = clock + Len(r.logCalls)
    /\ nreq' = nreq + 1
    /\ UNCHANGED <<config, chatLog, reportLog, tasks>>

(* The external chat call of worker w's request returns or raises. *)
ChatApiReturn(w, o, openOk) ==
    /\ req[w].kind = "chat"
    /\ req[w].pc = "calling"
    /\ LET r == ChatFinish(req[w], o, openaiError, openOk, clock, Len(chatLog))
       IN  /\ req' = [req EXCEPT ![w] = r]
           /\ clock' = clock + Len(r.logCalls)
    /\ UNCHANGED <<config, chatLog, reportLog, tasks, nreq>>

(* log_chat's write (and the close that flushes it) succeeds or raises;    *)
(* log_chat returns and the handler answers.                               *)
ChatLogWrite(w, ok) ==
    /\ req[w].kind = "chat"
    /\ req[w].pc = "logging"
    /\ chatLog' = IF ok THEN WriteLine(chatLog, req[w].handle.pos, ChatLine(req[w]))
                        ELSE chatLog
    /\ req' = [req EXCEPT ![w] =
                 AfterLog([@ EXCEPT !.appended = IF ok THEN @ + 1 ELSE @], ~ok)]
    /\ UNCHANGED <<config, reportLog, tasks, nreq, clock>>

(* POST /report (lines 94-98): the entry is built, log_report is queued as *)
(* a background task, the response is returned.                            *)
ReportStart(w, r) ==
    /\ nreq < MaxRequests
    /\ Free(w)
    /\ req' = [req EXCEPT ![w] =
                 [IdleReq EXCEPT !.kind = "report", !.pc = "done", !.response = ReportReceived]]
    /\ tasks' = Append(tasks, [state |-> "queued", entry |-> ReportEntry(r, clock), pos |-> 0])
    /\ clock' = clock + 1
    /\ nreq' = nreq + 1
    /\ UNCHANGED <<config, chatLog, reportLog>>

(* Background task i, in a thread of the pool: open(REPORT_LOG, "a"). *)
LogReportOpen(i, ok) ==
    /\ i \in DOMAIN tasks
    /\ tasks[i].state = "queued"
    /\ tasks' = [tasks EXCEPT ![i].state = IF ok THEN "opened" ELSE "failed",
                              ![i].pos = Len(reportLog)]
    /\ UNCHANGED <<config, chatLog, reportLog, req, nreq, clock>>

(* Background task i: the write and the close; a failure is printed. *)
LogReportWrite(i, ok) ==
    /\ i \in DOMAIN tasks
    /\ tasks[i].state = "opened"
    /\ reportLog' = IF ok THEN WriteLine(reportLog, tasks[i].pos, tasks[i].entry)
                          ELSE reportLog
    /\ tasks' = [tasks EXCEPT ![i].state = IF ok THEN "written" ELSE "failed"]
    /\ UNCHANGED <<config, chatLog, req, nreq, clock>>

(* Lines 111-126: identify_plant() up to requests.post(). *)
IdentifyBegin(key) ==
    IF ~key
    THEN [IdleReq EXCEPT !.kind = "identify", !.pc = "done", !.response = NotConfigured]
    ELSE [IdleReq EXCEPT !.kind = "identify", !.pc = "calling", !.apiCalls = 1]

(* POST /api/identify arrives at worker w. *)
IdentifyStart(w) ==
    /\ nreq < MaxRequests
    /\ Free(w)
    /\ req' = [req EXCEPT ![w] = IdentifyBegin(PLANTNET_API_KEY)]
    /\ nreq' = nreq + 1
    /\ UNCHANGED <<config, chatLog, reportLog, tasks, clock>>

(* requests.post() of worker w's request returns or raises. *)
IdentifyReturn(w, o) ==
    /\ req[w].kind = "identify"
    /\ req[w].pc = "calling"
    /\ req' = [req EXCEPT ![w] = [@ EXCEPT !.api = o, !.pc = "done",
                                           !.response = IdentifyFinish(o)]]
    /\ UNCHANGED <<config, chatLog, reportLog, tasks, nreq, clock>>

(* One worker process: its handlers run one at a time on the event loop,   *)
(* the background tasks in threads beside them.                            *)
Next ==
    \/ \E w \in EventLoop, m \in Messages, openOk \in BOOLEAN : ChatStart(w, m, openOk)
    \/ \E w \in EventLoop, o \in ChatOutcomes, openOk \in BOOLEAN : ChatApiReturn(w, o, openOk)
    \/ \E w \in EventLoop, ok \in BOOLEAN : ChatLogWrite(w, ok)
    \/ \E w \in EventLoop, r \in Reports : ReportStart(w, r)
    \/ \E i \in 1..MaxRequests + 1, ok \in BOOLEAN : LogReportOpen(i, ok)
    \/ \E i \in 1..MaxRequests + 1, ok \in BOOLEAN : LogReportWrite(i, ok)
    \/ \E w \in EventLoop : IdentifyStart(w)
    \/ \E w \in EventLoop, o \in PlantnetOutcomes : IdentifyReturn(w, o)

Spec == Init /\ [][Next]_vars

(* The service as deployed with the client library line 14 imports from:   *)
(* `from openai import OpenAI` exists from the 1.x client on, whose module  *)
(* has no attribute `error`.                                               *)
InitV1 ==
    /\ Init
    /\ openaiError = "absent"

SpecV1 == InitV1 /\ [][Next]_vars

(* Inputs of the several-worker deployment. *)
WorkerMessages == { <<>>, <<" ", "lake", "\n">> }

WorkerOutcomes ==
    { [kind |-> "response",
       resp |-> [map |-> Raises, attr |-> Str(<<"Herons", " ", "fish.", " ">>),
                 repr |-> <<"ChatCompletion(id=1)">>]],
      [kind |-> "error",
       err |-> [hasCode |-> TRUE, code |-> "insufficient_quota", rateLimitType |-> TRUE,
                text |-> <<"Error", " ", "429">>]],
      [kind |-> "error",
       err |-> [hasCode |-> FALSE, code |-> "None", rateLimitType |-> FALSE,
                text |-> <<"timed", " ", "out">>]] }

(* Several worker processes over the same two log files: the handlers of   *)
(* different workers interleave wherever one of them blocks.               *)
NextWorkers ==
    \/ \E w \in WorkerProcs, m \in WorkerMessages, openOk \in BOOLEAN : ChatStart(w, m, openOk)
    \/ \E w \in WorkerProcs, o \in WorkerOutcomes, openOk \in BOOLEAN : ChatApiReturn(w, o, openOk)
    \/ \E w \in WorkerProcs, ok \in BOOLEAN : ChatLogWrite(w, ok)
    \/ \E w \in WorkerProcs, r \in Reports : ReportStart(w, r)
    \/ \E i \in 1..MaxRequests + 1, ok \in BOOLEAN : LogReportOpen(i, ok)
    \/ \E i \in 1..MaxRequests + 1, ok \in BOOLEAN : LogReportWrite(i, ok)

SpecWorkers == Init /\ [][NextWorkers]_vars

(* ------------------------------ claims -------------------------------- *)

DoneChat(w) == req[w].kind = "chat" /\ req[w].pc = "done"
DoneIdentify(w) == req[w].kind = "identify" /\ req[w].pc = "done"

(* The message has a character that is not whitespace. *)
NonBlank(m) == \E i \in 1..Len(m) : m[i] \notin Whitespace

(* The response is a 200 carrying `reply`. *)
Replied(w) == req[w].response.status = 200 /\ "reply" \in DOMAIN req[w].response.body

IsPrefix(s, t) == Len(s) <= Len(t) /\ SubSeq(t, 1, Len(s)) = s

(* C1 as stated: every /chat request with a non-blank message is answered  *)
(* 200 with a non-empty reply, whatever the external call does; in mock    *)
(* mode the reply is the placeholder.                                      *)
C1_AlwaysNonEmptyReply ==
    \A w \in WorkerProcs :
        DoneChat(w) /\ NonBlank(req[w].message) =>
            /\ Replied(w)
            /\ req[w].response.body.reply # <<>>
            /\ MOCK_MODE => req[w].response.body.reply = MockReply

(* C1 amended: with a non-blank message, mock mode answers 200 with        *)
(* exactly the placeholder; a returned response answers 200 with a reply   *)
(* that is empty only if the message content it carries is blank; a raised *)
(* failure answers 200 with one of the two friendly strings, or 500.       *)
C1_ReplyUnlessServerError ==
    \A w \in WorkerProcs :
        DoneChat(w) /\ NonBlank(req[w].message) =>
            IF MOCK_MODE
            THEN req[w].response = Ok200([reply |-> MockReply])
            ELSE IF req[w].api.kind = "response"
            THEN /\ Replied(w)
                 /\ req[w].response.body.reply = <<>> =>
                        \E c \in {req[w].api.resp.map, req[w].api.resp.attr} :
                            c.kind = "str" /\ ~NonBlank(c.text)
            ELSE \/ Replied(w) /\ req[w].response.body.reply \in {QuotaFriendly, RateLimitFriendly}
                 \/ req[w].response.status = 500

C1_Witness ==
    \E w \in WorkerProcs :
        /\ DoneChat(w) /\ NonBlank(req[w].message) /\ ~MOCK_MODE
        /\ req[w].api.kind = "response"
        /\ Replied(w) /\ req[w].response.body.reply = <<>>

(* C2: a caught failure is answered by three rules in order: a quota code  *)
(* gives the quota reply; otherwise a failure of the library's rate-limit  *)
(* type gives the rate-limit reply; every other failure gives 500 with     *)
(* str(e) in the detail.                                                   *)
C2_ThreeRulesInOrder ==
    \A w \in WorkerProcs :
        DoneChat(w) /\ req[w].api.kind = "error" =>
            LET e == req[w].api.err
            IN  IF e.hasCode /\ e.code \in {"insufficient_quota", "rate_limit_exceeded"}
                THEN req[w].response = Ok200([reply |-> QuotaFriendly])
                ELSE IF e.rateLimitType
                THEN req[w].response = Ok200([reply |-> RateLimitFriendly])
                ELSE req[w].response = HTTPException(500, ServerErrorPrefix \o e.text)

(* C3: a failure classified as quota/rate-limit is answered 200 with one   *)
(* of the two friendly strings, after log_chat was called once with the    *)
(* user's message and that string; the line is in the chat log unless the  *)
(* write failed.                                                           *)
C3_FriendlyReplyLogged ==
    \A w \in WorkerProcs :
        /\ DoneChat(w)
        /\ req[w].api.kind = "error"
        /\ Classify(req[w].api.err, openaiError).kind = "quota_or_rate_limit"
        => /\ Replied(w)
           /\ req[w].response.body.reply \in {QuotaFriendly, RateLimitFriendly}
           /\ req[w].logCalls = <<[message |-> Strip(req[w].message),
                                   reply |-> req[w].response.body.reply]>>
           /\ ~req[w].logFailed =>
                  \E i \in DOMAIN chatLog :
                      chatLog[i] = [ts |-> req[w].handle.ts,
                                    message |-> Strip(req[w].message),
                                    reply |-> req[w].response.body.reply]

C3_Witness ==
    \E w \in WorkerProcs :
        /\ DoneChat(w) /\ req[w].api.kind = "error"
        /\ ~req[w].api.err.rateLimitType
        /\ req[w].response = Ok200([reply |-> QuotaFriendly])
        /\ ~req[w].logFailed
        /\ chatLog[Len(chatLog)].reply = QuotaFriendly

(* Lines of the chat log written by the log_chat call that read the clock  *)
(* at ts; lines of the report log of the report received at ts.            *)
ChatLinesOf(ts) == {i \in DOMAIN chatLog : chatLog[i].ts = ts}
ReportLinesOf(ts) == {i \in DOMAIN reportLog : reportLog[i].received_at = ts}

(* C4 as stated: every /chat call answered 200 has appended exactly one    *)
(* line to the chat log, every /report call whose logger is over exactly   *)
(* one line to the report log.                                             *)
C4_ExactlyOneLine ==
    /\ \A w \in WorkerProcs :
           DoneChat(w) /\ req[w].response.status = 200 =>
               Cardinality(ChatLinesOf(req[w].handle.ts)) = 1
    /\ \A i \in DOMAIN tasks :
           tasks[i].state \in {"written", "failed"} =>
               Cardinality(ReportLinesOf(tasks[i].entry.received_at)) = 1

C4_LinesAccounted ==
    /\ \A w \in WorkerProcs :
           DoneChat(w) /\ req[w].response.status = 200 =>
               /\ Len(req[w].logCalls) = 1
               /\ req[w].appended = (IF req[w].logFailed THEN 0 ELSE 1)
               /\ req[w].handle.ts > 0 =>
                      Cardinality(ChatLinesOf(req[w].handle.ts)) = req[w].appended
    /\ \A i \in DOMAIN tasks :
           Cardinality(ReportLinesOf(tasks[i].entry.received_at))
               = (IF tasks[i].state = "written" THEN 1 ELSE 0)

C4_LogsOnlyGrow ==
    /\ IsPrefix(chatLog, chatLog') /\ Len(chatLog') <= Len(chatLog) + 1
    /\ IsPrefix(reportLog, reportLog') /\ Len(reportLog') <= Len(reportLog) + 1

(* C4 amended: under any interleaving, a /chat call answered 200 has       *)
(* called log_chat once and appended one line, or none if the write        *)
(* failed; a /report call's logger appends one line, or none if it fails;  *)
(* every step leaves the lines already in either log as they were and adds *)
(* at most one line.                                                       *)
C4_OneLineUnlessWriteFails ==
    [] C4_LinesAccounted /\ [][C4_LogsOnlyGrow]_vars

(* Two workers opened the chat log before either wrote, and both wrote. *)
C4_Witness ==
    /\ DoneChat(1) /\ DoneChat(2)
    /\ req[1].appended = 1 /\ req[2].appended = 1
    /\ req[1].handle.pos = 0 /\ req[2].handle.pos = 0
    /\ Len(chatLog) = 2

(* C5: a failed log write changes no answer: a /chat request that called   *)
(* log_chat is answered 200 with the reply it handed to log_chat whether   *)
(* the write failed or not, and a /report request is answered "Report      *)
(* received" whatever becomes of its background logger.                    *)
C5_LogFailureChangesNothing ==
    /\ \A w \in WorkerProcs :
           DoneChat(w) /\ req[w].logCalls # <<>> =>
               req[w].response = Ok200([reply |-> req[w].logCalls[1].reply])
    /\ \A w \in WorkerProcs :
           req[w].kind = "report" => req[w].pc = "done" /\ req[w].response = ReportReceived

C5_Witness ==
    /\ \E w \in WorkerProcs :
           DoneChat(w) /\ req[w].logFailed /\ req[w].handle.ts > 0 /\ Replied(w)
    /\ \E i \in DOMAIN tasks : tasks[i].state = "failed"

(* C6: a /chat request whose message is empty or all whitespace is         *)
(* answered 400 "Empty message" at once, mock mode or not, without a call  *)
(* to log_chat and without a line added to the chat log.                   *)
C6_EmptyMessageRejected ==
    \A w \in WorkerProcs :
        req[w].kind = "chat" /\ ~NonBlank(req[w].message) =>
            /\ req[w].pc = "done"
            /\ req[w].response = HTTPException(400, <<"Empty message">>)
            /\ req[w].logCalls = <<>>
            /\ req[w].appended = 0
            /\ \A i \in DOMAIN chatLog : chatLog[i].message # <<>>

C6_Witness ==
    \E w \in WorkerProcs :
        /\ DoneChat(w) /\ MOCK_MODE
        /\ req[w].message = <<"\t", "\n">>
        /\ req[w].response.status = 400

(* C7: for every object the external call returns, the request is answered *)
(* 200 and the reply is the trimmed mapping-style content if that is a     *)
(* string, else the trimmed attribute-style content if that is a string,   *)
(* else the string form of the whole object.                               *)
C7_ExtractionChain ==
    \A w \in WorkerProcs :
        req[w].kind = "chat" /\ req[w].api.kind = "response" =>
            LET resp == req[w].api.resp
            IN  /\ req[w].pc \in {"logging", "done"}
                /\ Replied(w)
                /\ req[w].response.body.reply =
                       IF resp.map.kind = "str" THEN Strip(resp.map.text)
                       ELSE IF resp.attr.kind = "str" THEN Strip(resp.attr.text)
                       ELSE resp.repr

C7_Witness ==
    \E w \in WorkerProcs :
        /\ DoneChat(w) /\ req[w].api.kind = "response"
        /\ req[w].api.resp.map.kind = "none"
        /\ req[w].api.resp.attr.kind = "str"
        /\ req[w].response = Ok200([reply |-> <<"Herons", " ", "fish.">>])

UpstreamAnswered(w) == DoneIdentify(w) /\ req[w].api.kind = "response"

(* C8 as stated: any non-2xx status of the identification service is       *)
(* passed on: same status code, the upstream body in the detail.           *)
C8_Non2xxPropagated ==
    \A w \in WorkerProcs :
        /\ UpstreamAnswered(w)
        /\ ~(200 <= req[w].api.status_code /\ req[w].api.status_code < 300)
        => req[w].response =
               HTTPException(req[w].api.status_code, PlantnetErrorPrefix \o req[w].api.text)

(* C8 amended: any 4xx or 5xx status of the identification service is      *)
(* passed on: same status code, the upstream body in the detail.           *)
C8_4xx5xxPropagated ==
    \A w \in WorkerProcs :
        /\ UpstreamAnswered(w)
        /\ 400 <= req[w].api.status_code /\ req[w].api.status_code < 600
        => req[w].response =
               HTTPException(req[w].api.status_code, PlantnetErrorPrefix \o req[w].api.text)

C8_Witness ==
    \E w \in WorkerProcs :
        /\ UpstreamAnswered(w)
        /\ req[w].api.status_code = 503
        /\ req[w].response.status = 503

(* A 2xx answer whose body parses to an object with `results`. *)
Parsed2xx(w) ==
    /\ UpstreamAnswered(w)
    /\ 200 <= req[w].api.status_code /\ req[w].api.status_code < 300
    /\ req[w].api.json.isJson /\ req[w].api.json.hasResults

(* What C9 says of a non-empty `results`: 200, built from the first result. *)
FromFirstResult(w) ==
    LET top == req[w].api.json.results[1]
        body == req[w].response.body
    IN  /\ req[w].response.status = 200
        /\ DOMAIN body = {"scientificName", "commonName", "confidence", "contribution"}
        /\ body.scientificName = top.scientificName
        /\ body.commonName = (IF Len(top.commonNames) > 0 THEN top.commonNames[1]
                                                           ELSE top.scientificName)
        /\ body.contribution = (IF top.scientificName \in SpeciesKeys
                                THEN species_contributions(top.scientificName)
                                ELSE GenericPlantText)

(* C9 as stated: every 2xx answer with empty `results` gives 200 with only *)
(* a message; every 2xx answer with non-empty `results` gives 200 built    *)
(* from the first result.                                                  *)
C9_EveryResultIdentified ==
    \A w \in WorkerProcs :
        Parsed2xx(w) =>
            IF req[w].api.json.results = <<>>
            THEN req[w].response.status = 200 /\ DOMAIN req[w].response.body = {"message"}
            ELSE FromFirstResult(w)

(* C9 amended: as stated when the first result carries the keys the        *)
(* handler reads (species.scientificName, species.commonNames, score); a   *)
(* first result lacking one of them gives 500.                             *)
C9_CompleteResultIdentified ==
    \A w \in WorkerProcs :
        Parsed2xx(w) =>
            IF req[w].api.json.results = <<>>
            THEN req[w].response.status = 200 /\ DOMAIN req[w].response.body = {"message"}
            ELSE LET top == req[w].api.json.results[1]
                 IN  IF top.hasName /\ top.hasCommon /\ top.hasScore
                     THEN FromFirstResult(w)
                     ELSE req[w].response.status = 500

C9_Witness ==
    \E w \in WorkerProcs :
        /\ Parsed2xx(w)
        /\ req[w].api.json.results = <<Lily, Cattail>>
        /\ req[w].response.status = 200
        /\ req[w].response.body.commonName = "White Water Lily"
        /\ req[w].response.body.contribution = species_contributions("Nymphaea alba")

(* C10: a request makes at most one external call, and none when a /chat   *)
(* message is blank, when the mock flag is on (log_chat is still called    *)
(* with the placeholder) or when /api/identify has no credential (500).    *)
C10_AtMostOneExternalCall ==
    \A w \in WorkerProcs :
        /\ req[w].apiCalls <= 1
        /\ req[w].kind = "chat" /\ ~NonBlank(req[w].message) => req[w].apiCalls = 0
        /\ req[w].kind = "chat" /\ MOCK_MODE => req[w].apiCalls = 0 /\ req[w].api = NoCall
        /\ req[w].kind = "chat" /\ MOCK_MODE /\ NonBlank(req[w].message) =>
               req[w].logCalls = <<[message |-> Strip(req[w].message), reply |-> MockReply]>>
        /\ req[w].kind = "identify" /\ ~PLANTNET_API_KEY =>
               req[w].apiCalls = 0 /\ req[w].pc = "done" /\ req[w].response.status = 500
        /\ req[w].kind = "report" => req[w].apiCalls = 0
        /\ req[w].pc = "done" /\ req[w].api # NoCall => req[w].apiCalls = 1

C10_Witness ==
    \E w \in WorkerProcs :
        /\ DoneChat(w) /\ MOCK_MODE /\ NonBlank(req[w].message)
        /\ req[w].apiCalls = 0
        /\ req[w].appended = 1
        /\ chatLog[Len(chatLog)].reply = MockReply

====
